---- MODULE Spec2Model ----
(***************************************************************************)
(* Chunking engine (FileChunker) and finding aggregation (CodeReviewer) of *)
(* the code-review tool.  Text is a sequence of lexemes; every lexeme is a *)
(* literal piece of source text with its character width, so that          *)
(* String.length, split('\n'), join('\n') and the rule regexes are         *)
(* computed on the text itself.                                            *)
(***************************************************************************)
EXTENDS Integers, Sequences, FiniteSets, TLC

\* ------------------------------------------------------------------ bounds
MaxLen == 5        \* lexemes in a file text
MaxBudget == 3     \* largest token budget given in the options
MaxReviewLen == 4  \* lexemes in a file text handed to reviewFile

\* -------------------------------------------------------------- text model
NL == "\n"
Alphabet == {"a", NL, "eval(", "innerHTML="}

\* String.length of one lexeme
Width(c) ==
  CASE c = "a" -> 1
    [] c = NL -> 1
    [] c = "eval(" -> 5
    [] c = "innerHTML=" -> 10
    [] c = "class A" -> 7
    [] c = "console.log" -> 11
    [] c = "var x=" -> 6

Texts == UNION {[1..n -> Alphabet] : n \in 0..MaxLen}

RECURSIVE StrLength(_)
StrLength(text) ==
  IF text = <<>> THEN 0 ELSE Width(Head(text)) + StrLength(Tail(text))

\* content.split('\n')
RECURSIVE Split(_)
Split(text) ==
  IF \A k \in 1..Len(text) : text[k] # NL
  THEN <<text>>
  ELSE LET k == CHOOSE j \in 1..Len(text) :
                   text[j] = NL /\ \A h \in 1..(j-1) : text[h] # NL
       IN <<SubSeq(text, 1, k-1)>> \o Split(SubSeq(text, k+1, Len(text)))

\* array.join('\n')
RECURSIVE Join(_)
Join(ls) ==
  IF ls = <<>> THEN <<>>
  ELSE IF Len(ls) = 1 THEN ls[1]
  ELSE ls[1] \o <<NL>> \o Join(Tail(ls))

estimateTokens_Floor(text) == StrLength(text) \div 4

\* FileChunker.estimateTokens: Math.ceil(text.length / 4)
estimateTokens(text) == (StrLength(text) + 3) \div 4

\* CodeReviewer.estimateTokens: Math.ceil(text.length / 4)
CodeReviewer_estimateTokens(text) == (StrLength(text) + 3) \div 4

\* --------------------------------------------------------- option values
\* An option is absent (undefined) or holds a number.
Undefined == {}
Num(n) == {n}
ValueOf(v) == CHOOSE n \in v : TRUE
Truthy(v) == v # Undefined /\ v # Num(0)
\* v || d
OrDefault(v, d) == IF Truthy(v) THEN ValueOf(v) ELSE d

DefaultMaxTokens == 4000
DefaultOverlap == 200

OptionValues == {Undefined} \cup {Num(n) : n \in (-1)..MaxBudget}
ChunkerOptions == [maxTokens : OptionValues, overlap : OptionValues]

\* loadConfig: the configuration used when settings.json cannot be read
DefaultConfig ==
  [memory |-> [maxTokensPerChunk |-> 4000,
               maxTokens |-> Undefined,
               overlap |-> Undefined]]

\* ---------------------------------------------------------------- state
VARIABLES
  pc,            \* position of the per-file pipeline
  content,       \* text of the file being processed
  options,       \* options object handed to new FileChunker(...)
  maxTokens,     \* this.maxTokens
  overlap,       \* this.overlap
  lines,         \* createChunks: content.split('\n')
  i,             \* createChunks: loop index (0-based)
  currentChunk,  \* createChunks: lines of the chunk in progress
  currentTokens, \* createChunks: running estimate
  chunkNumber,   \* createChunks: next sequence number
  chunks,        \* createChunks: output list
  extension,     \* createChunks: path.extname(filePath)
  breakpoints,   \* createChunks: result of findBreakpoints
  carried,       \* history: result of getOverlapLines at every close
  config,        \* CodeReviewer: this.config
  template,      \* reviewFile: the template name selected for the file
  reviews,       \* reviewChunkedFile: the chunk reviews made so far
  result,        \* the review returned by reviewFile
  saved,         \* the reviews written by saveReview, in order
  findings       \* generateSummary: the finding list handed to it

vars == <<pc, content, options, maxTokens, overlap, lines, i, currentChunk,
          currentTokens, chunkNumber, chunks, carried, config, template,
          reviews, result, saved, extension, breakpoints, findings>>

reviewVars == <<config, template, reviews, result, saved>>

chunkerVars == <<lines, i, currentChunk, currentTokens, chunkNumber, chunks,
                 carried, breakpoints>>

\* ------------------------------------------------------------ FileChunker
RECURSIVE OverlapWalk(_, _, _, _, _)
OverlapWalk(chunk, k, tokens, overlapLines, overlapTokens) ==
  IF k >= 1 /\ tokens < overlapTokens
  THEN OverlapWalk(chunk, k - 1, tokens + estimateTokens(chunk[k]),
                   <<chunk[k]>> \o overlapLines, overlapTokens)
  ELSE overlapLines

RECURSIVE OverlapWalkInclusive(_, _, _, _, _)
OverlapWalkInclusive(chunk, k, tokens, overlapLines, overlapTokens) ==
  IF k >= 1 /\ tokens <= overlapTokens
  THEN OverlapWalkInclusive(chunk, k - 1, tokens + estimateTokens(chunk[k]),
                            <<chunk[k]>> \o overlapLines, overlapTokens)
  ELSE overlapLines

getOverlapLines_Inclusive(chunk, overlapTokens) ==
  OverlapWalkInclusive(chunk, Len(chunk), 0, <<>>, overlapTokens)

getOverlapLines(chunk, overlapTokens) ==
  OverlapWalk(chunk, Len(chunk), 0, <<>>, overlapTokens)

\* lexemes that, at the start of a line, are a match of the declaration
\* regexes of findBreakpoints
JsFunctionStarts == {"function f"}
JsClassStarts == {"class A"}
PyStarts == {"def f", "class A"}

\* match.index of every match of a /^.../gm regex: the character offsets of
\* the lexemes of starts that begin a line
MatchOffsets(text, starts) ==
  {StrLength(SubSeq(text, 1, k - 1)) :
     k \in {j \in 1..Len(text) :
              text[j] \in starts /\ (j = 1 \/ text[j - 1] = NL)}}

\* array.sort((a, b) => a - b)
RECURSIVE SortAscending(_)
SortAscending(S) ==
  IF S = {} THEN <<>>
  ELSE LET m == CHOOSE x \in S : \A y \in S : x <= y
       IN <<m>> \o SortAscending(S \ {m})

findBreakpoints(text, ext) ==
  SortAscending(
    CASE ext \in {".js", ".jsx", ".ts", ".tsx"} ->
           MatchOffsets(text, JsFunctionStarts) \cup MatchOffsets(text, JsClassStarts)
      [] ext = ".py" -> MatchOffsets(text, PyStarts)
      [] OTHER -> {})

Init ==
  /\ pc = "start"
  /\ content \in Texts
  /\ options \in ChunkerOptions
  /\ maxTokens = 0
  /\ overlap = 0
  /\ lines = <<>>
  /\ i = 0
  /\ currentChunk = <<>>
  /\ currentTokens = 0
  /\ chunkNumber = 1
  /\ chunks = <<>>
  /\ carried = <<>>
  /\ config = DefaultConfig
  /\ template = "best-practices"
  /\ reviews = <<>>
  /\ result = Undefined
  /\ saved = <<>>
  /\ findings = <<>>
  /\ extension = ".js"
  /\ breakpoints = <<>>

\* new FileChunker(options)
Constructor ==
  /\ pc = "start"
  /\ maxTokens' = OrDefault(options.maxTokens, DefaultMaxTokens)
  /\ overlap' = OrDefault(options.overlap, DefaultOverlap)
  /\ pc' = "constructed"
  /\ UNCHANGED <<findings, extension, content, options>>
  /\ UNCHANGED chunkerVars
  /\ UNCHANGED reviewVars

\* createChunks: the declarations before the loop
CreateChunksEnter ==
  /\ pc = "constructed"
  /\ lines' = Split(content)
  /\ chunks' = <<>>
  /\ currentChunk' = <<>>
  /\ currentTokens' = 0
  /\ chunkNumber' = 1
  /\ i' = 0
  /\ carried' = <<>>
  /\ breakpoints' = findBreakpoints(content, extension)
  /\ pc' = "loop"
  /\ UNCHANGED <<findings, extension, content, options, maxTokens, overlap>>
  /\ UNCHANGED reviewVars

ShouldClose_NoLengthTest(tokens, lineTokens, limit, chunkLen) ==
  tokens + lineTokens > limit

\* createChunks: the test that closes the chunk in progress
ShouldClose(tokens, lineTokens, limit, chunkLen) ==
  tokens + lineTokens > limit /\ chunkLen > 0

ClosedChunk_EndOffByOne(number, chunk, idx, tokens, overlapLines) ==
  [number |-> number,
   content |-> Join(chunk),
   startLine |-> idx - Len(chunk) + 1,
   endLine |-> idx + 1,
   tokens |-> tokens,
   overlap |-> overlapLines]

\* createChunks: the record pushed when a chunk is closed before line idx
ClosedChunk(number, chunk, idx, tokens, overlapLines) ==
  [number |-> number,
   content |-> Join(chunk),
   startLine |-> idx - Len(chunk) + 1,
   endLine |-> idx,
   tokens |-> tokens,
   overlap |-> overlapLines]

FinalChunk_WrongNumber(number, chunk, nLines, tokens) ==
  [number |-> number + 1,
   content |-> Join(chunk),
   startLine |-> nLines - Len(chunk) + 1,
   endLine |-> nLines,
   tokens |-> tokens,
   overlap |-> <<>>]

\* createChunks: the record pushed after the loop
FinalChunk(number, chunk, nLines, tokens) ==
  [number |-> number,
   content |-> Join(chunk),
   startLine |-> nLines - Len(chunk) + 1,
   endLine |-> nLines,
   tokens |-> tokens,
   overlap |-> <<>>]

CreateChunksStep_UnseededTokens ==
  /\ pc = "loop"
  /\ i < Len(lines)
  /\ LET line == lines[i + 1]
         lineTokens == estimateTokens(line)
         close == ShouldClose(currentTokens, lineTokens, maxTokens,
                              Len(currentChunk))
         overlapLines == getOverlapLines(currentChunk, overlap)
         pushed == IF close
                   THEN Append(chunks, ClosedChunk(chunkNumber, currentChunk, i,
                                                   currentTokens, overlapLines))
                   ELSE chunks
     IN /\ currentChunk' = IF close THEN Append(overlapLines, line)
                                    ELSE Append(currentChunk, line)
        /\ currentTokens' = IF close
                            THEN lineTokens
                            ELSE currentTokens + lineTokens
        /\ chunkNumber' = IF close THEN chunkNumber + 1 ELSE chunkNumber
        \* chunk.overlap and currentChunk are the same array from the first
        \* close on, so push(line) also shows in the last closed chunk
        /\ chunks' = IF pushed = <<>> THEN pushed
                     ELSE [pushed EXCEPT ![Len(pushed)].overlap = Append(@, line)]
        /\ carried' = IF close THEN Append(carried, overlapLines) ELSE carried
  /\ i' = i + 1
  /\ UNCHANGED <<pc, findings, extension, content, options, maxTokens, overlap, lines,
                 breakpoints>>
  /\ UNCHANGED reviewVars

\* one iteration of the for loop of createChunks
CreateChunksStep ==
  /\ pc = "loop"
  /\ i < Len(lines)
  /\ LET line == lines[i + 1]
         lineTokens == estimateTokens(line)
         close == ShouldClose(currentTokens, lineTokens, maxTokens,
                              Len(currentChunk))
         overlapLines == getOverlapLines(currentChunk, overlap)
         pushed == IF close
                   THEN Append(chunks, ClosedChunk(chunkNumber, currentChunk, i,
                                                   currentTokens, overlapLines))
                   ELSE chunks
     IN /\ currentChunk' = IF close THEN Append(overlapLines, line)
                                    ELSE Append(currentChunk, line)
        /\ currentTokens' = IF close
                            THEN estimateTokens(Join(overlapLines)) + lineTokens
                            ELSE currentTokens + lineTokens
        /\ chunkNumber' = IF close THEN chunkNumber + 1 ELSE chunkNumber
        \* chunk.overlap and currentChunk are the same array from the first
        \* close on, so push(line) also shows in the last closed chunk
        /\ chunks' = IF pushed = <<>> THEN pushed
                     ELSE [pushed EXCEPT ![Len(pushed)].overlap = Append(@, line)]
        /\ carried' = IF close THEN Append(carried, overlapLines) ELSE carried
  /\ i' = i + 1
  /\ UNCHANGED <<pc, findings, extension, content, options, maxTokens, overlap, lines,
                 breakpoints>>
  /\ UNCHANGED reviewVars

\* createChunks: after the loop, save the final chunk and return
CreateChunksReturn ==
  /\ pc = "loop"
  /\ i = Len(lines)
  /\ chunks' = IF Len(currentChunk) > 0
               THEN Append(chunks, FinalChunk(chunkNumber, currentChunk,
                                              Len(lines), currentTokens))
               ELSE chunks
  /\ pc' = "chunked"
  /\ UNCHANGED <<findings, extension, content, options, maxTokens, overlap, lines, i,
                 currentChunk, currentTokens, chunkNumber, carried, breakpoints>>
  /\ UNCHANGED reviewVars

\* ----------------------------------------------------------- CodeReviewer
\* the template files present in the templates directory
TemplateFiles == {"security", "performance", "best-practices"}

\* loadTemplate: the name itself when its file can be read
loadTemplate(templateName) ==
  IF templateName \in TemplateFiles THEN templateName ELSE "best-practices"

\* String.prototype.toLowerCase on the names used as rule-set keys
ToLowerCase(name) ==
  CASE name = "bestPractices" -> "bestpractices"
    [] name = "Security" -> "security"
    [] name = "Performance" -> "performance"
    [] OTHER -> name

\* analyzeCode: the rule table.  matches is the set of lexemes of the
\* alphabet that contain a match of the rule's regex; no match spans two
\* lexemes of the alphabet.
SecurityRules ==
  <<[matches |-> {"eval("}, severity |-> "critical",
     message |-> "Avoid using eval() - security risk"],
    [matches |-> {"innerHTML="}, severity |-> "high",
     message |-> "Direct innerHTML assignment - XSS risk"],
    [matches |-> {}, severity |-> "critical",
     message |-> "Hardcoded password detected"]>>

PerformanceRules ==
  <<[matches |-> {}, severity |-> "medium",
     message |-> "for...in loop can be slow"],
    [matches |-> {}, severity |-> "high",
     message |-> "DOM query inside loop"]>>

BestPracticesRules ==
  <<[matches |-> {"console.log"}, severity |-> "low",
     message |-> "Remove console statements"],
    [matches |-> {"var x="}, severity |-> "info",
     message |-> "Use const/let instead of var"],
    [matches |-> {}, severity |-> "medium",
     message |-> "Too many parameters"]>>

\* the lower-case names that patterns inherits from Object.prototype: the
\* lookup patterns[key] gives a value that is truthy and is not an array
InheritedKeys == {"constructor", "__proto__"}

\* analyzeCode throws a TypeError: activePatterns.forEach is not a function
analyzeCodeThrows(tpl) == ToLowerCase(tpl) \in InheritedKeys

\* patterns[template.toLowerCase()] || patterns.bestPractices, when the
\* lookup gives one of the rule lists or nothing
ActivePatterns(tpl) ==
  LET key == ToLowerCase(tpl)
  IN CASE key = "security" -> SecurityRules
       [] key = "performance" -> PerformanceRules
       [] key = "bestPractices" -> BestPracticesRules
       [] OTHER -> BestPracticesRules

\* pattern.regex.test(line)
RegexTest(pattern, line) == \E k \in 1..Len(line) : line[k] \in pattern.matches

RECURSIVE LineFindings_FirstOnly(_, _, _, _)
LineFindings_FirstOnly(line, index, patterns, k) ==
  IF k > Len(patterns) THEN <<>>
  ELSE IF RegexTest(patterns[k], line)
       THEN <<[line |-> index + 1,
               severity |-> patterns[k].severity,
               message |-> patterns[k].message,
               code |-> line]>>
       ELSE LineFindings_FirstOnly(line, index, patterns, k + 1)

\* the findings of one line, in rule order
RECURSIVE LineFindings(_, _, _, _)
LineFindings(line, index, patterns, k) ==
  IF k > Len(patterns) THEN <<>>
  ELSE (IF RegexTest(patterns[k], line)
        THEN <<[line |-> index + 1,
                severity |-> patterns[k].severity,
                message |-> patterns[k].message,
                code |-> line]>>
        ELSE <<>>) \o LineFindings(line, index, patterns, k + 1)

RECURSIVE FindingsFrom_HeadOnly(_, _, _)
FindingsFrom_HeadOnly(ls, index, patterns) ==
  IF index >= Len(ls) THEN <<>>
  ELSE LET found == LineFindings(ls[index + 1], index, patterns, 1)
       IN (IF found = <<>> THEN <<>> ELSE <<Head(found)>>)
            \o FindingsFrom_HeadOnly(ls, index + 1, patterns)

\* lines.forEach: the findings of the lines from index on, in line order
RECURSIVE FindingsFrom(_, _, _)
FindingsFrom(ls, index, patterns) ==
  IF index >= Len(ls) THEN <<>>
  ELSE LineFindings(ls[index + 1], index, patterns, 1)
         \o FindingsFrom(ls, index + 1, patterns)

analyzeCode(text, tpl) == FindingsFrom(Split(text), 0, ActivePatterns(tpl))

\* lexemes that are a match of one of the complexity indicators
ComplexityIndicators == {"if(", "else{", "for(", "while(", "case ", "catch("}

estimateComplexity(text) ==
  1 + Cardinality({k \in 1..Len(text) : text[k] \in ComplexityIndicators})

\* lexemes that start a comment line
CommentStarts == {"//", "#"}

calculateMetrics(text) ==
  LET ls == Split(text)
  IN [totalLines |-> Len(ls),
      codeLines |-> Cardinality({k \in 1..Len(ls) : StrLength(ls[k]) > 0}),
      commentLines |-> Cardinality({k \in 1..Len(ls) :
                         ls[k] # <<>> /\ ls[k][1] \in CommentStarts}),
      complexity |-> estimateComplexity(text),
      tokens |-> CodeReviewer_estimateTokens(text)]

SeverityCount_DistinctLines(fs, sev) ==
  Cardinality({fs[k].line : k \in {j \in 1..Len(fs) : fs[j].severity = sev}})

\* severityCounts[f.severity]++ over the findings
SeverityCount(fs, sev) ==
  Cardinality({k \in 1..Len(fs) : fs[k].severity = sev})

generateSummary_CountsLow(fs) ==
  LET part(sev, label) ==
        IF SeverityCount(fs, sev) > 0
        THEN <<<<SeverityCount(fs, sev), label>>>>
        ELSE <<>>
      parts == part("critical", "critical issues")
                 \o part("high", "high priority issues")
                 \o part("medium", "medium priority issues")
                 \o part("low", "low priority issues")
  IN IF Len(parts) > 0
     THEN <<"Found", parts, "Immediate attention required.">>
     ELSE <<"No significant issues found. Code meets quality standards.">>

\* generateSummary: the sentence, kept as its parts
generateSummary(fs) ==
  LET part(sev, label) ==
        IF SeverityCount(fs, sev) > 0
        THEN <<<<SeverityCount(fs, sev), label>>>>
        ELSE <<>>
      parts == part("critical", "critical issues")
                 \o part("high", "high priority issues")
                 \o part("medium", "medium priority issues")
  IN IF Len(parts) > 0
     THEN <<"Found", parts, "Immediate attention required.">>
     ELSE <<"No significant issues found. Code meets quality standards.">>

performReview(text, templateName, chunkNo) ==
  LET tpl == loadTemplate(templateName)
      found == analyzeCode(text, tpl)
  IN [template |-> templateName,
      chunkNumber |-> chunkNo,
      findings |-> found,
      metrics |-> calculateMetrics(text),
      summary |-> generateSummary(found)]

\* combineReviews: the findings of all reviews, each tagged with the index of
\* its review
RECURSIVE MergeFindings(_, _)
MergeFindings(rs, index) ==
  IF index > Len(rs) THEN <<>>
  ELSE [k \in 1..Len(rs[index].findings) |->
          [line |-> rs[index].findings[k].line,
           severity |-> rs[index].findings[k].severity,
           message |-> rs[index].findings[k].message,
           code |-> rs[index].findings[k].code,
           chunk |-> index]]
       \o MergeFindings(rs, index + 1)

RECURSIVE SumMetric(_, _, _)
SumMetric(rs, key, index) ==
  IF index > Len(rs) THEN 0
  ELSE rs[index].metrics[key] + SumMetric(rs, key, index + 1)

MetricKeys == {"totalLines", "codeLines", "commentLines", "complexity", "tokens"}

combineReviews(rs) ==
  LET allFindings == MergeFindings(rs, 1)
  IN [totalChunks |-> Len(rs),
      findings |-> allFindings,
      metrics |-> [key \in MetricKeys |-> SumMetric(rs, key, 1)],
      summary |-> generateSummary(allFindings)]

ReviewTexts == UNION {[1..n -> Alphabet] : n \in 0..MaxReviewLen}
TemplateNames == {"security", "best-practices"}
ReviewOptionValues == {Undefined} \cup {Num(n) : n \in 1..MaxBudget}
Configs ==
  [memory : [maxTokensPerChunk : 1..MaxBudget,
             maxTokens : ReviewOptionValues,
             overlap : ReviewOptionValues]]

InitReview ==
  /\ pc = "review"
  /\ content \in ReviewTexts
  /\ config \in Configs
  /\ template \in TemplateNames
  /\ options = [maxTokens |-> Undefined, overlap |-> Undefined]
  /\ maxTokens = 0
  /\ overlap = 0
  /\ lines = <<>>
  /\ i = 0
  /\ currentChunk = <<>>
  /\ currentTokens = 0
  /\ chunkNumber = 1
  /\ chunks = <<>>
  /\ carried = <<>>
  /\ reviews = <<>>
  /\ result = Undefined
  /\ saved = <<>>
  /\ findings = <<>>
  /\ extension = ".js"
  /\ breakpoints = <<>>

\* reviewFile, the file fits: one review of the whole text, saved and returned
ReviewFileWhole ==
  /\ pc = "review"
  /\ ~(CodeReviewer_estimateTokens(content) > config.memory.maxTokensPerChunk)
  /\ result' = performReview(content, template, Undefined)
  /\ saved' = Append(saved, result')
  /\ pc' = "done"
  /\ UNCHANGED <<findings, extension, content, options, maxTokens, overlap, config, template, reviews>>
  /\ UNCHANGED chunkerVars

\* reviewFile, the file needs chunking: reviewChunkedFile hands config.memory
\* to the FileChunker constructor
ReviewFileChunked ==
  /\ pc = "review"
  /\ CodeReviewer_estimateTokens(content) > config.memory.maxTokensPerChunk
  /\ options' = [maxTokens |-> config.memory.maxTokens,
                 overlap |-> config.memory.overlap]
  /\ pc' = "start"
  /\ UNCHANGED <<findings, extension, content, maxTokens, overlap>>
  /\ UNCHANGED chunkerVars
  /\ UNCHANGED reviewVars

\* reviewChunkedFile: one iteration of the loop over the chunks
ReviewChunk ==
  /\ pc = "chunked"
  /\ Len(reviews) < Len(chunks)
  /\ LET chunk == chunks[Len(reviews) + 1]
     IN reviews' = Append(reviews,
                          performReview(chunk.content, template, Num(chunk.number)))
  /\ UNCHANGED <<pc, findings, extension, content, options, maxTokens, overlap, config, template,
                 result, saved>>
  /\ UNCHANGED chunkerVars

CombineAndSave_Early ==
  /\ pc = "chunked"
  /\ Len(reviews) >= 1
  /\ result' = combineReviews(reviews)
  /\ saved' = Append(saved, result')
  /\ pc' = "done"
  /\ UNCHANGED <<findings, extension, content, options, maxTokens, overlap, config, template, reviews>>
  /\ UNCHANGED chunkerVars

\* reviewChunkedFile: combine the chunk reviews, save and return
CombineAndSave ==
  /\ pc = "chunked"
  /\ Len(reviews) = Len(chunks)
  /\ result' = combineReviews(reviews)
  /\ saved' = Append(saved, result')
  /\ pc' = "done"
  /\ UNCHANGED <<findings, extension, content, options, maxTokens, overlap, config, template, reviews>>
  /\ UNCHANGED chunkerVars

Next ==
  \/ Constructor
  \/ CreateChunksEnter
  \/ CreateChunksStep
  \/ CreateChunksReturn

Spec == Init /\ [][Next]_vars

NextReview ==
  \/ ReviewFileWhole
  \/ ReviewFileChunked
  \/ Constructor
  \/ CreateChunksEnter
  \/ CreateChunksStep
  \/ CreateChunksReturn
  \/ ReviewChunk
  \/ CombineAndSave

SpecReview == InitReview /\ [][NextReview]_vars


\* ------------------------------------- the chunker on files of short lines
MaxShortLen == 7   \* characters in a file text of short lines

ShortTexts == UNION {[1..n -> {"a", NL}] : n \in 0..MaxShortLen}

InitShort ==
  /\ pc = "start"
  /\ content \in ShortTexts
  /\ options \in ChunkerOptions
  /\ maxTokens = 0
  /\ overlap = 0
  /\ lines = <<>>
  /\ i = 0
  /\ currentChunk = <<>>
  /\ currentTokens = 0
  /\ chunkNumber = 1
  /\ chunks = <<>>
  /\ carried = <<>>
  /\ config = DefaultConfig
  /\ template = "best-practices"
  /\ reviews = <<>>
  /\ result = Undefined
  /\ saved = <<>>
  /\ findings = <<>>
  /\ extension = ".js"
  /\ breakpoints = <<>>

SpecShort == InitShort /\ [][Next]_vars

MaxFairLen == 5    \* characters in a file text of the fair specification

InitFair == InitShort /\ Len(content) <= MaxFairLen

\* createChunks is synchronous code: once called it runs to its return
SpecFair == InitFair /\ [][Next]_vars /\ WF_vars(Next)

\* ------------------------------------- the chunker on files of declarations
HintTexts == UNION {[1..n -> {"a", NL, "class A"}] : n \in 0..MaxLen}
Extensions == {".js", ".py", ".md"}

InitHints ==
  /\ pc = "start"
  /\ content \in HintTexts
  /\ extension \in Extensions
  /\ options \in ChunkerOptions
  /\ maxTokens = 0
  /\ overlap = 0
  /\ lines = <<>>
  /\ i = 0
  /\ currentChunk = <<>>
  /\ currentTokens = 0
  /\ chunkNumber = 1
  /\ chunks = <<>>
  /\ carried = <<>>
  /\ breakpoints = <<>>
  /\ config = DefaultConfig
  /\ template = "best-practices"
  /\ reviews = <<>>
  /\ result = Undefined
  /\ saved = <<>>
  /\ findings = <<>>

SpecHints == InitHints /\ [][Next]_vars

\* ---------------------------------------------- analyzeCode called directly
MaxAnalyzeLen == 4 \* lexemes in a text handed to analyzeCode

AnalyzeTexts ==
  UNION {[1..n -> {NL, "eval(", "innerHTML=", "console.log", "var x="}] :
           n \in 0..MaxAnalyzeLen}

\* the rule-set names handed to analyzeCode
RuleSetNames ==
  {"security", "performance", "bestPractices", "best-practices", "Security",
   "unknown", "constructor"}

InitAnalyze ==
  /\ pc = "analyze"
  /\ content \in AnalyzeTexts
  /\ template \in RuleSetNames
  /\ extension = ".js"
  /\ options = [maxTokens |-> Undefined, overlap |-> Undefined]
  /\ maxTokens = DefaultMaxTokens
  /\ overlap = DefaultOverlap
  /\ lines = <<>>
  /\ i = 0
  /\ currentChunk = <<>>
  /\ currentTokens = 0
  /\ chunkNumber = 1
  /\ chunks = <<>>
  /\ carried = <<>>
  /\ breakpoints = <<>>
  /\ config = DefaultConfig
  /\ reviews = <<>>
  /\ result = Undefined
  /\ saved = <<>>
  /\ findings = <<>>

\* analyzeCode(content, template): returns the findings, or throws
AnalyzeCall ==
  /\ pc = "analyze"
  /\ IF analyzeCodeThrows(template)
     THEN /\ pc' = "threw"
          /\ UNCHANGED result
     ELSE /\ pc' = "analyzed"
          /\ result' = [findings |-> analyzeCode(content, template)]
  /\ UNCHANGED <<findings, extension, content, options, maxTokens, overlap, config,
                 template, reviews, saved>>
  /\ UNCHANGED chunkerVars

NextAnalyze == AnalyzeCall

SpecAnalyze == InitAnalyze /\ [][NextAnalyze]_vars

\* ------------------------------------------- estimateTokens called directly
InitEstimate ==
  /\ pc = "estimate"
  /\ content \in Texts
  /\ template = "best-practices"
  /\ extension = ".js"
  /\ options = [maxTokens |-> Undefined, overlap |-> Undefined]
  /\ maxTokens = DefaultMaxTokens
  /\ overlap = DefaultOverlap
  /\ lines = <<>>
  /\ i = 0
  /\ currentChunk = <<>>
  /\ currentTokens = 0
  /\ chunkNumber = 1
  /\ chunks = <<>>
  /\ carried = <<>>
  /\ breakpoints = <<>>
  /\ config = DefaultConfig
  /\ reviews = <<>>
  /\ result = Undefined
  /\ saved = <<>>
  /\ findings = <<>>

\* estimateTokens(content), by the chunker's and by the reviewer's copy
EstimateCall ==
  /\ pc = "estimate"
  /\ result' = [chunker |-> estimateTokens(content),
                reviewer |-> CodeReviewer_estimateTokens(content)]
  /\ pc' = "estimated"
  /\ UNCHANGED <<findings, extension, content, options, maxTokens, overlap,
                 config, template, reviews, saved>>
  /\ UNCHANGED chunkerVars

NextEstimate == EstimateCall

SpecEstimate == InitEstimate /\ [][NextEstimate]_vars

\* ------------------------------------------ generateSummary called directly
MaxFindings == 3   \* findings in a list handed to generateSummary

Severities == {"critical", "high", "medium", "low", "info"}

FindingLists ==
  UNION {[1..n -> [line : 1..2, severity : Severities,
                   message : {"issue"}, code : {<<"a">>}]] :
           n \in 0..MaxFindings}

InitSummary ==
  /\ pc = "summarize"
  /\ findings \in FindingLists
  /\ content = <<>>
  /\ template = "best-practices"
  /\ extension = ".js"
  /\ options = [maxTokens |-> Undefined, overlap |-> Undefined]
  /\ maxTokens = DefaultMaxTokens
  /\ overlap = DefaultOverlap
  /\ lines = <<>>
  /\ i = 0
  /\ currentChunk = <<>>
  /\ currentTokens = 0
  /\ chunkNumber = 1
  /\ chunks = <<>>
  /\ carried = <<>>
  /\ breakpoints = <<>>
  /\ config = DefaultConfig
  /\ reviews = <<>>
  /\ result = Undefined
  /\ saved = <<>>

\* generateSummary(findings)
GenerateSummaryCall ==
  /\ pc = "summarize"
  /\ result' = [summary |-> generateSummary(findings)]
  /\ pc' = "summarized"
  /\ UNCHANGED <<findings, extension, content, options, maxTokens, overlap,
                 config, template, reviews, saved>>
  /\ UNCHANGED chunkerVars

NextSummary == GenerateSummaryCall

SpecSummary == InitSummary /\ [][NextSummary]_vars

\* ------------------------------------------- combineReviews called directly
MaxParts == 2      \* chunks, and chunk reviews, handed to the aggregator

\* the contents of the chunks of a direct call: one line each
PartTexts == {<<>>} \cup {<<c>> : c \in Alphabet \ {NL}}
PartLists == UNION {[1..n -> PartTexts] : n \in 0..MaxParts}

\* a caller of combineReviews holds a chunk list and a list of chunk reviews
\* that it made itself
InitCombine ==
  /\ pc = "combine"
  /\ \E parts \in PartLists :
       chunks = [k \in 1..Len(parts) |->
                   FinalChunk(k, <<parts[k]>>, k, estimateTokens(parts[k]))]
  /\ \E parts \in PartLists :
       reviews = [k \in 1..Len(parts) |->
                    performReview(parts[k], "security", Num(k))]
  /\ content = <<>>
  /\ config = DefaultConfig
  /\ template = "security"
  /\ options = [maxTokens |-> Undefined, overlap |-> Undefined]
  /\ maxTokens = DefaultMaxTokens
  /\ overlap = DefaultOverlap
  /\ lines = <<>>
  /\ i = 0
  /\ currentChunk = <<>>
  /\ currentTokens = 0
  /\ chunkNumber = 1
  /\ carried = <<>>
  /\ result = Undefined
  /\ saved = <<>>
  /\ findings = <<>>
  /\ extension = ".js"
  /\ breakpoints = <<>>

\* combineReviews(reviews, filePath)
CombineCall ==
  /\ pc = "combine"
  /\ result' = combineReviews(reviews)
  /\ pc' = "combined"
  /\ UNCHANGED <<findings, extension, content, options, maxTokens, overlap, config, template,
                 reviews, saved>>
  /\ UNCHANGED chunkerVars

NextCombine == CombineCall

SpecCombine == InitCombine /\ [][NextCombine]_vars

\* ------------------------------------------------------- chunker properties
ValidBudget == 0 < overlap /\ overlap < maxTokens

RECURSIVE SumTokens(_)
SumTokens(ls) ==
  IF ls = <<>> THEN 0 ELSE estimateTokens(Head(ls)) + SumTokens(Tail(ls))

EndLine(k) == IF k = 0 THEN 0 ELSE chunks[k].endLine

\* the new (non-overlap) lines of chunk k: the last endLine(k) - endLine(k-1)
\* lines of its content
NewLines(k) ==
  LET cl == Split(chunks[k].content)
      n == EndLine(k) - EndLine(k - 1)
  IN IF n < 0 \/ n > Len(cl) THEN <<>>
     ELSE SubSeq(cl, Len(cl) - n + 1, Len(cl))

RECURSIVE NewLinesUpTo(_)
NewLinesUpTo(k) ==
  IF k = 0 THEN <<>> ELSE NewLinesUpTo(k - 1) \o NewLines(k)

\* C1 (coverage): under a valid budget the ranges endLine(k-1)+1 .. endLine(k)
\* of the returned chunks partition 1..N in ascending contiguous order, the
\* new lines of chunk k are exactly those original lines, and joining the new
\* lines of all chunks in order gives back the file text.
C1_Coverage ==
  (pc = "chunked" /\ ValidBudget) =>
    /\ Len(chunks) >= 1
    /\ \A k \in 1..Len(chunks) :
         /\ EndLine(k - 1) < EndLine(k)
         /\ EndLine(k) <= Len(lines)
         /\ NewLines(k) = SubSeq(lines, EndLine(k - 1) + 1, EndLine(k))
    /\ EndLine(Len(chunks)) = Len(lines)
    /\ Join(NewLinesUpTo(Len(chunks))) = content

C1_Witness ==
  /\ pc = "chunked"
  /\ ValidBudget
  /\ Len(chunks) >= 3
  /\ \E k \in 1..Len(carried) : carried[k] # <<>>

\* C2 (budget respect): every returned chunk has a token count <= maxTokens
\* unless it is a single line whose own estimate exceeds maxTokens.
C2_BudgetRespect ==
  (pc = "chunked" /\ ValidBudget) =>
    \A k \in 1..Len(chunks) :
      \/ chunks[k].tokens <= maxTokens
      \/ /\ Len(Split(chunks[k].content)) = 1
         /\ estimateTokens(chunks[k].content) > maxTokens

\* C3 (overlap bound, as stated): under a valid budget the lines carried over
\* into every chunk after the first have an estimated token count <= the
\* overlap budget.
C3_OverlapWithinBudget ==
  ValidBudget => \A k \in 1..Len(carried) : SumTokens(carried[k]) <= overlap

\* C3 (overlap bound, amended): the lines carried over into every chunk after
\* the first, without the earliest of them, have summed estimates below the
\* overlap budget, that is the budget is exceeded by less than one line.
C3_OverlapWithinOneLine ==
  \A k \in 1..Len(carried) :
    carried[k] # <<>> => SumTokens(Tail(carried[k])) < overlap

C3_Witness ==
  /\ pc = "chunked"
  /\ ValidBudget
  /\ \E k \in 1..Len(carried) :
       Len(carried[k]) >= 2 /\ SumTokens(carried[k]) > overlap

\* the budget values the caller asked for (an absent option asks for the
\* default)
Given(v, d) == IF v = Undefined THEN d ELSE ValueOf(v)
GivenInvalid ==
  LET m == Given(options.maxTokens, DefaultMaxTokens)
      o == Given(options.overlap, DefaultOverlap)
  IN m <= 0 \/ o <= 0 \/ o >= m

\* C4 (invalid budgets rejected): with overlap >= maxTokens or a zero or
\* negative budget no chunking takes place and no chunk is produced, and a
\* given value is never replaced by another one.
C4_InvalidBudgetRejected ==
  GivenInvalid =>
    /\ pc \notin {"loop", "chunked"}
    /\ chunks = <<>>
    /\ pc # "start" =>
         /\ maxTokens = Given(options.maxTokens, DefaultMaxTokens)
         /\ overlap = Given(options.overlap, DefaultOverlap)

\* C8 (empty input): chunking the empty text returns no chunk.
C8_EmptyFileZeroChunks ==
  (pc = "chunked" /\ content = <<>>) => chunks = <<>>

\* C9 (oversized line): a line whose own estimate exceeds maxTokens is
\* returned as a chunk made of that line alone, text intact.
C9_OversizedLineAlone ==
  (pc = "chunked" /\ ValidBudget) =>
    \A n \in 1..Len(lines) :
      estimateTokens(lines[n]) > maxTokens =>
        \E k \in 1..Len(chunks) :
          /\ chunks[k].startLine = n
          /\ chunks[k].endLine = n
          /\ chunks[k].content = lines[n]

IsPrefix(p, s) == Len(p) <= Len(s) /\ SubSeq(s, 1, Len(p)) = p
IsSuffix(p, s) == Len(p) <= Len(s) /\ SubSeq(s, Len(s) - Len(p) + 1, Len(s)) = p

\* C13 (overlap field): in the returned list the overlap field of the first
\* chunk is empty and the overlap field of every later chunk holds the lines
\* it duplicates from the tail of the chunk before it.
C13_OverlapField ==
  (pc = "chunked" /\ ValidBudget) =>
    /\ chunks # <<>> => chunks[1].overlap = <<>>
    /\ \A k \in 2..Len(chunks) :
         /\ chunks[k].overlap = carried[k - 1]
         /\ IsSuffix(chunks[k].overlap, Split(chunks[k - 1].content))
         /\ IsPrefix(chunks[k].overlap, Split(chunks[k].content))

\* C17 (sequence numbers): the chunks are numbered 1, 2, ..., n in list
\* order, for every input and every budget.
C17_NumberedInOrder ==
  \A k \in 1..Len(chunks) : chunks[k].number = k

C17_Witness ==
  /\ pc = "chunked"
  /\ Len(chunks) >= 3
  /\ chunkNumber = Len(chunks)

\* C14 (single-chunk no-op): a file text whose estimate, taken over the whole
\* text, is under maxTokens comes back as exactly one chunk that covers lines
\* 1..N and carries no overlap.
C14_SingleChunkNoOp ==
  (pc = "chunked" /\ ValidBudget /\ estimateTokens(content) < maxTokens) =>
    /\ Len(chunks) = 1
    /\ chunks[1].startLine = 1
    /\ chunks[1].endLine = Len(lines)
    /\ chunks[1].content = content
    /\ carried = <<>>

\* the character offset at which line n of the file starts
RECURSIVE LineStartOffset(_)
LineStartOffset(n) ==
  IF n = 1 THEN 0 ELSE LineStartOffset(n - 1) + StrLength(lines[n - 1]) + 1

\* the lines that start at a boundary hint
HintLines ==
  {n \in 1..Len(lines) :
     \E b \in 1..Len(breakpoints) : breakpoints[b] = LineStartOffset(n)}

\* C16 (boundary hints): a chunk is not closed at the budget line when a hint
\* lies within tolerance of it.  Taken at the least tolerance, one line: when
\* the line before the budget line starts at a hint, the budget line does not,
\* and the chunk has another new line to keep, the chunk is closed at the
\* hint, so no returned chunk ends with such a hint line.
C16_ClosesAtHint ==
  (pc = "chunked" /\ ValidBudget) =>
    \A k \in 1..(Len(chunks) - 1) :
      ~ /\ EndLine(k) \in HintLines
        /\ (EndLine(k) + 1) \notin HintLines
        /\ EndLine(k) - EndLine(k - 1) >= 2

\* C24 (closing rule): an iteration of the loop closes the chunk in progress
\* exactly when the running estimate plus the estimate of the line at hand is
\* over maxTokens and the chunk in progress has a line; no chunk in the output
\* list is empty, and the lines of its content are whole lines of the file.
C24_ClosingRule ==
  /\ [][(pc = "loop" /\ i < Len(lines)) =>
          ((Len(chunks') = Len(chunks) + 1) <=>
             /\ currentTokens + estimateTokens(lines[i + 1]) > maxTokens
             /\ Len(currentChunk) >= 1)]_vars
  /\ [](\A k \in 1..Len(chunks) :
          /\ chunks[k].endLine - chunks[k].startLine + 1 >= 1
          /\ \A n \in 1..Len(Split(chunks[k].content)) :
               /\ chunks[k].startLine + n - 1 \in 1..Len(lines)
               /\ Split(chunks[k].content)[n]
                    = lines[chunks[k].startLine + n - 1])

C24_Witness ==
  /\ pc = "chunked"
  /\ ValidBudget
  /\ Len(chunks) >= 2
  /\ chunks[1].tokens = maxTokens
  /\ Len(Split(chunks[1].content)) >= 2

\* the last m elements of s
LastLines(s, m) == SubSeq(s, Len(s) - m + 1, Len(s))

\* C25 (overlap selection): the lines selected when a chunk is closed are the
\* shortest suffix of its lines whose summed per-line estimates reach the
\* overlap budget, or all of its lines when the sum stays below the budget;
\* the budget is exceeded by less than the estimate of the earliest selected
\* line.
C25_ShortestSuffix ==
  \A k \in 1..Len(carried) :
    LET cl == Split(chunks[k].content)
        ov == carried[k]
    IN /\ IsSuffix(ov, cl)
       /\ SumTokens(ov) >= overlap \/ ov = cl
       /\ \A m \in 0..(Len(ov) - 1) : SumTokens(LastLines(cl, m)) < overlap
       /\ ov # <<>> => SumTokens(ov) - overlap < estimateTokens(ov[1])

C25_Witness ==
  /\ pc = "chunked"
  /\ ValidBudget
  /\ \E k \in 1..Len(carried) :
       /\ carried[k] = Split(chunks[k].content)
       /\ SumTokens(carried[k]) < overlap
  /\ \E k \in 1..Len(carried) :
       /\ carried[k] # <<>>
       /\ Len(carried[k]) < Len(Split(chunks[k].content))
       /\ SumTokens(carried[k]) > overlap

\* C26 (overlap seeding): the content of every chunk after the first is the
\* lines selected at the close of the chunk before it, then at least one new
\* line; its startLine is endLine(k-1) - (number of overlap lines) + 1, its
\* new lines are the file lines endLine(k-1)+1 .. endLine(k), and its token
\* count is the estimate of the joined overlap plus the estimates of its new
\* lines.
C26_OverlapSeeds ==
  \A k \in 2..Len(chunks) :
    LET cl == Split(chunks[k].content)
        ov == carried[k - 1]
        new == SubSeq(cl, Len(ov) + 1, Len(cl))
    IN /\ IsPrefix(ov, cl)
       /\ Len(new) >= 1
       /\ chunks[k].startLine = EndLine(k - 1) - Len(ov) + 1
       /\ chunks[k].startLine <= EndLine(k - 1) + 1
       /\ new = SubSeq(lines, EndLine(k - 1) + 1, EndLine(k))
       /\ chunks[k].tokens = estimateTokens(Join(ov)) + SumTokens(new)

C26_Witness ==
  /\ pc = "chunked"
  /\ ValidBudget
  /\ \E k \in 2..Len(chunks) :
       /\ Len(carried[k - 1]) >= 2
       /\ estimateTokens(Join(carried[k - 1])) > 0
       /\ chunks[k].startLine < EndLine(k - 1)

\* C27 (line ranges): every returned chunk has 1 <= startLine <= endLine <= N,
\* its content has endLine - startLine + 1 lines and is the file lines
\* startLine..endLine joined by newlines; endLine increases strictly from
\* chunk to chunk and the last endLine is N.
C27_LineRanges ==
  pc = "chunked" =>
    /\ \A k \in 1..Len(chunks) :
         /\ 1 <= chunks[k].startLine
         /\ chunks[k].startLine <= chunks[k].endLine
         /\ chunks[k].endLine <= Len(lines)
         /\ Len(Split(chunks[k].content))
              = chunks[k].endLine - chunks[k].startLine + 1
         /\ chunks[k].content
              = Join(SubSeq(lines, chunks[k].startLine, chunks[k].endLine))
         /\ k > 1 => chunks[k - 1].endLine < chunks[k].endLine
    /\ Len(chunks) >= 1
    /\ chunks[Len(chunks)].endLine = Len(lines)

C27_Witness ==
  /\ pc = "chunked"
  /\ Len(chunks) >= 3
  /\ \E k \in 2..Len(chunks) : chunks[k].startLine <= chunks[k - 1].endLine
  /\ \E k \in 1..Len(chunks) : chunks[k].content = <<>>

\* C28 (termination): for every file text and every budget setting
\* createChunks returns, and the list it returns has at most N chunks for a
\* file of N lines.
C28_Terminates ==
  /\ <>(pc = "chunked")
  /\ [](pc = "chunked" => Len(chunks) <= Len(lines))

C28_Witness ==
  /\ pc = "chunked"
  /\ overlap >= maxTokens
  /\ Len(lines) >= 3
  /\ Len(chunks) = Len(lines)
  /\ \E k \in 1..Len(carried) : carried[k] # <<>>

\* C29 (recorded token count): the tokens field of every returned chunk is
\* the estimate of the chunk's content string.
C29_TokensMatchContent ==
  (pc = "chunked" /\ ValidBudget) =>
    \A k \in 1..Len(chunks) :
      chunks[k].tokens = estimateTokens(chunks[k].content)

\* ----------------------------------------------------- aggregation properties
\* the returned review is the combined review of a chunked file
ChunkedResult == pc = "done" /\ reviews # <<>>

\* the original-file line of a combined finding: its chunk-local line moved
\* by the start line of the chunk it was found in
OriginalLine(f) == chunks[f.chunk].startLine + f.line - 1

\* C5 (deduplication): in the combined result of a chunked file no two
\* findings have the same original-file line and the same message.
C5_FindingsUnique ==
  (ChunkedResult /\ ValidBudget) =>
    \A p \in 1..Len(result.findings) : \A q \in 1..Len(result.findings) :
      (/\ OriginalLine(result.findings[p]) = OriginalLine(result.findings[q])
       /\ result.findings[p].message = result.findings[q].message) => p = q

\* C6 (coordinate translation): a finding made at chunk-local line j of a
\* chunk that starts at original line s is in the combined result with line
\* s + j - 1, and the combined result has no other finding.
C6_LinesTranslated ==
  (ChunkedResult /\ ValidBudget) =>
    /\ \A c \in 1..Len(reviews) : \A p \in 1..Len(reviews[c].findings) :
         \E q \in 1..Len(result.findings) :
           /\ result.findings[q].message = reviews[c].findings[p].message
           /\ result.findings[q].line
                = chunks[c].startLine + reviews[c].findings[p].line - 1
    /\ \A q \in 1..Len(result.findings) :
         \E c \in 1..Len(reviews) : \E p \in 1..Len(reviews[c].findings) :
           /\ result.findings[q].message = reviews[c].findings[p].message
           /\ result.findings[q].line
                = chunks[c].startLine + reviews[c].findings[p].line - 1

SeverityRank(sev) ==
  CASE sev = "critical" -> 5
    [] sev = "high" -> 4
    [] sev = "medium" -> 3
    [] sev = "low" -> 2
    [] sev = "info" -> 1

\* C7 (ordering): in every returned review the findings are in non-increasing
\* severity order and, within one severity, in non-decreasing line order.
C7_FindingsOrdered ==
  pc = "done" =>
    \A q \in 1..(Len(result.findings) - 1) :
      LET f == result.findings[q]
          g == result.findings[q + 1]
      IN \/ SeverityRank(f.severity) > SeverityRank(g.severity)
         \/ /\ SeverityRank(f.severity) = SeverityRank(g.severity)
            /\ f.line <= g.line

\* C10 (metrics): the combined metrics of a chunked file count every line of
\* the file once.
C10_LinesCountedOnce ==
  (ChunkedResult /\ ValidBudget) => result.metrics.totalLines = Len(Split(content))

\* C11 (alignment error): when the aggregator is handed chunk reviews and
\* chunk line offsets of different lengths it fails: the call never returns
\* a combined result.
C11_MismatchRejected ==
  Len(reviews) # Len(chunks) => pc # "combined"

\* C12 (pipeline order): a chunk is analysed only once the whole file is
\* chunked, overlap seeds included; the combined result exists only once every
\* chunk has its review; and exactly one review is saved per file, the
\* returned one, after aggregation, never a chunk review.
C12_PipelineOrder ==
  /\ reviews # <<>> =>
       /\ pc \in {"chunked", "done"}
       /\ i = Len(lines)
       /\ chunks # <<>>
       /\ EndLine(Len(chunks)) = Len(lines)
       /\ Len(carried) = Len(chunks) - 1
       /\ Len(reviews) <= Len(chunks)
       /\ \A k \in 1..Len(reviews) :
            reviews[k].chunkNumber = Num(chunks[k].number)
  /\ (pc = "done" /\ reviews # <<>>) =>
       /\ Len(reviews) = Len(chunks)
       /\ result.totalChunks = Len(chunks)
  /\ Len(saved) = (IF pc = "done" THEN 1 ELSE 0)
  /\ pc = "done" =>
       /\ saved[1] = result
       /\ \A c \in 1..Len(reviews) : saved[1] # reviews[c]

C12_Witness ==
  /\ pc = "done"
  /\ Len(reviews) >= 2
  /\ \E k \in 1..Len(carried) : carried[k] # <<>>

\* C15 (configured budgets applied): the chunker that reviewFile runs for a
\* file over config.memory.maxTokensPerChunk uses that configured maximum as
\* its per-chunk budget.
C15_ConfiguredBudgetApplied ==
  (pc \in {"constructed", "loop", "chunked"} \/ ChunkedResult) =>
    maxTokens = config.memory.maxTokensPerChunk

\* ------------------------------------------------------- analyzer properties
\* the names of the rule sets that analyzeCode defines
DefinedRuleSets == {"security", "performance", "bestPractices"}
IsDefinedRuleSet(name) ==
  \E d \in DefinedRuleSets : ToLowerCase(name) = ToLowerCase(d)

\* C18 (unknown rule set): analyzeCode called with a name that is not a
\* defined rule set does not fail and returns the findings of the default
\* (best-practices) rule set.
C18_UnknownFallsBack ==
  ~IsDefinedRuleSet(template) =>
    /\ pc # "threw"
    /\ pc = "analyzed" =>
         result.findings = FindingsFrom(Split(content), 0, BestPracticesRules)

\* the findings in fs that report rule r at line n of ls
Reports(fs, ls, n, r) ==
  {q \in 1..Len(fs) :
     /\ fs[q].line = n
     /\ fs[q].severity = r.severity
     /\ fs[q].message = r.message}

\* C20 (per-line rule firing): the findings analyzeCode returns are exactly
\* one per pair of a line and a rule of the active rule set whose pattern
\* matches the line, with the 1-based line index and the rule's severity and
\* message, and nothing else.
C20_OneFindingPerMatch ==
  pc = "analyzed" =>
    LET fs == result.findings
        ls == Split(content)
        rules == ActivePatterns(template)
    IN /\ \A n \in 1..Len(ls) : \A r \in 1..Len(rules) :
            Cardinality(Reports(fs, ls, n, rules[r]))
              = (IF RegexTest(rules[r], ls[n]) THEN 1 ELSE 0)
       /\ \A q \in 1..Len(fs) :
            \E n \in 1..Len(ls) : \E r \in 1..Len(rules) :
              q \in Reports(fs, ls, n, rules[r])

C20_Witness ==
  /\ pc = "analyzed"
  /\ \E q \in 1..(Len(result.findings) - 1) :
       result.findings[q].line = result.findings[q + 1].line
  /\ \E n \in 1..Len(Split(content)) :
       \A q \in 1..Len(result.findings) : result.findings[q].line # n

\* the lists that hold the rules of a rule set in another order
RulePermutations(rules) ==
  {[k \in 1..Len(rules) |-> rules[p[k]]] :
     p \in {q \in [1..Len(rules) -> 1..Len(rules)] :
              \A a \in 1..Len(rules) : \A b \in 1..Len(rules) :
                q[a] = q[b] => a = b}}

FindingSet(fs) == {fs[q] : q \in 1..Len(fs)}

\* C21 (rule-order independence): with the rules of the active rule set in
\* any other order, analyzeCode produces the same set of findings, and as
\* many of them, for the same content.
C21_RuleOrderIndependent ==
  pc = "analyzed" =>
    \A perm \in RulePermutations(ActivePatterns(template)) :
      LET fs == FindingsFrom(Split(content), 0, perm)
      IN /\ FindingSet(fs) = FindingSet(result.findings)
         /\ Len(fs) = Len(result.findings)

C21_Witness ==
  /\ pc = "analyzed"
  /\ \E perm \in RulePermutations(ActivePatterns(template)) :
       FindingsFrom(Split(content), 0, perm) # result.findings

\* ------------------------------------------------------- estimator properties
\* C23 (token estimator): the estimate of a text is the least integer e with
\* 4 * e >= length(text), so it is not negative and 0 for the empty text; no
\* prefix of the text has a larger estimate; and the reviewer's copy gives
\* the same value as the chunker's.
C23_EstimateIsCeiling ==
  pc = "estimated" =>
    LET e == result.chunker
    IN /\ e \in Nat
       /\ 4 * e >= StrLength(content)
       /\ 4 * (e - 1) < StrLength(content)
       /\ content = <<>> => e = 0
       /\ \A k \in 0..Len(content) :
            estimateTokens(SubSeq(content, 1, k)) <= e
       /\ result.reviewer = e

C23_Witness ==
  /\ pc = "estimated"
  /\ StrLength(content) % 4 # 0
  /\ result.chunker >= 3
  /\ \E k \in 1..(Len(content) - 1) :
       estimateTokens(SubSeq(content, 1, k)) < result.chunker

\* --------------------------------------------------------- summary properties
CountOf(fs, sev) == Cardinality({k \in 1..Len(fs) : fs[k].severity = sev})

RECURSIVE Repeat(_, _)
Repeat(x, n) == IF n = 0 THEN <<>> ELSE <<x>> \o Repeat(x, n - 1)

\* the finding list that is made from the counts per severity of fs alone:
\* the severities in rank order, one finding per line
CanonicalFindings(fs) ==
  LET sevs == Repeat("critical", CountOf(fs, "critical"))
                \o Repeat("high", CountOf(fs, "high"))
                \o Repeat("medium", CountOf(fs, "medium"))
                \o Repeat("low", CountOf(fs, "low"))
                \o Repeat("info", CountOf(fs, "info"))
  IN [k \in 1..Len(sevs) |->
        [line |-> k, severity |-> sevs[k], message |-> "issue",
         code |-> <<"a">>]]

NoIssuesSentence == "No significant issues found. Code meets quality standards."

\* C22 (summary generation): the sentence of generateSummary is the sentence
\* of the list that is rebuilt from the counts per severity alone, so two
\* finding lists with equal counts get the same sentence; for the empty list
\* it is the fixed fallback sentence.
C22_SummaryFromCounts ==
  pc = "summarized" =>
    /\ result.summary = generateSummary(CanonicalFindings(findings))
    /\ findings = <<>> =>
         Len(result.summary) = 1 /\ result.summary[1] = NoIssuesSentence

C22_Witness ==
  /\ pc = "summarized"
  /\ Len(result.summary) = 3
  /\ findings[1].severity = "info"
  /\ \E a \in 1..Len(findings) : \E b \in 1..Len(findings) :
       /\ a < b
       /\ findings[a].line = findings[b].line
       /\ findings[a].severity = "high"
       /\ findings[b].severity = "high"

NonZeroPart(p) == p[1] > 0

\* C30 (summary threshold): the sentence is the fallback sentence exactly
\* when no finding is critical, high or medium; otherwise it is the 'Found'
\* sentence that lists the non-zero counts of critical, high and medium
\* findings, in that order, and nothing else.
C30_SummaryThreshold ==
  pc = "summarized" =>
    LET none == /\ CountOf(findings, "critical") = 0
                /\ CountOf(findings, "high") = 0
                /\ CountOf(findings, "medium") = 0
    IN /\ none <=> Len(result.summary) = 1
       /\ none => result.summary[1] = NoIssuesSentence
       /\ ~none =>
            /\ Len(result.summary) = 3
            /\ result.summary[1] = "Found"
            /\ result.summary[2] =
                 SelectSeq(<<<<CountOf(findings, "critical"), "critical issues">>,
                             <<CountOf(findings, "high"), "high priority issues">>,
                             <<CountOf(findings, "medium"), "medium priority issues">>>>,
                           NonZeroPart)
            /\ result.summary[3] = "Immediate attention required."

C30_Witness ==
  /\ pc = "summarized"
  /\ CountOf(findings, "critical") > 0
  /\ CountOf(findings, "high") = 0
  /\ CountOf(findings, "medium") > 0
  /\ CountOf(findings, "low") > 0
  /\ Len(result.summary) = 3
  /\ Len(result.summary[2]) = 2

TypeOK == pc \in {"estimate", "estimated", "summarize", "summarized", "analyze", "analyzed", "threw", "combine", "combined", "review", "start", "constructed", "loop", "chunked", "done"}
====
